---- MODULE Spec2Model ----
\* Verification model of src/ai-service/main.py: the weather helper
\* get_live_temperature, the route handlers health_check and simulate_policy,
\* and the arithmetic of the policy simulation.
\*
\* Numbers.  Python floats are modelled as exact rationals, written as mixed
\* numbers [w, r, d] = w + r/d with 0 <= r < d in lowest terms, so that no
\* intermediate product leaves the range of the model checker's integers.
\* The binary64 round-off of an expression is far smaller than the spacing of
\* the input grid, so it can change a result only where the exact operand of
\* round() is a tie; there the direction is decided by the sign of the
\* round-off, which the model keeps in fpErr (see round).
EXTENDS Integers, Sequences, FiniteSets, TLC

\* ---------------------------------------------------------------- bounds
NReq == 2
MaxAcTemp == 1000
MaxNegAcTemp == 100
MaxReduction == 5000
MaxNegReduction == 100

\* ---------------------------------------------------------------- rationals
RECURSIVE GCD(_, _)
GCD(a, b) == IF b = 0 THEN a ELSE GCD(b, a % b)

Norm(w, n, d) ==
    LET q == n \div d
        r == n % d
        g == GCD(d, r)
    IN  [w |-> w + q, r |-> r \div g, d |-> d \div g]

Whole(i) == [w |-> i, r |-> 0, d |-> 1]
Tenths(t) == Norm(0, t, 10)
Hundredths(h) == Norm(0, h, 100)

Neg(x) == Norm(-x.w, -x.r, x.d)
Add(x, y) == Norm(x.w + y.w, x.r * y.d + y.r * x.d, x.d * y.d)
Sub(x, y) == Add(x, Neg(y))

\* x * k for an integer k > 0 (x of either sign)
MulInt(x, k) ==
    LET g == GCD(k, x.d)
    IN  Norm(x.w * k, x.r * (k \div g), x.d \div g)

\* x / k for an integer k > 0
DivInt(x, k) ==
    LET q == x.w \div k
        s == x.w % k
    IN  Norm(q, s * x.d + x.r, k * x.d)

\* x * (a / b), the product with a decimal literal a/b
MulFrac(x, a, b) == DivInt(MulInt(x, a), b)

\* numerator of x over its own denominator
Numer(x) == x.w * x.d + x.r

\* x / y for y # 0
Div(x, y) ==
    IF Numer(y) > 0 THEN Norm(0, Numer(x) * y.d, x.d * Numer(y))
                    ELSE Norm(0, (-Numer(x)) * y.d, x.d * (-Numer(y)))

Lt(x, y) == x.w < y.w \/ (x.w = y.w /\ x.r * y.d < y.r * x.d)
Le(x, y) == ~Lt(y, x)
Gt(x, y) == Lt(y, x)
IsZero(x) == x.w = 0 /\ x.r = 0

\* Python's max(a, b) and min(a, b): the first argument wins unless the
\* second is strictly larger (smaller).
max(a, b) == IF Gt(b, a) THEN b ELSE a
min(a, b) == IF Lt(b, a) THEN b ELSE a

Pow10(n) == IF n = 0 THEN 1 ELSE IF n = 1 THEN 10 ELSE 100

\* round(x, ndigits) of a float whose exact value is x and whose accumulated
\* round-off has sign err: the nearest multiple of 10^-ndigits; on an exact
\* tie the round-off decides, and with no round-off Python rounds half to
\* even.
round(x, ndigits, err) ==
    LET s == MulInt(x, Pow10(ndigits))
        up == IF 2 * s.r > s.d THEN TRUE
              ELSE IF 2 * s.r < s.d THEN FALSE
              ELSE IF err > 0 THEN TRUE
              ELSE IF err < 0 THEN FALSE
              ELSE s.w % 2 = 1
    IN  Norm(0, IF up THEN s.w + 1 ELSE s.w, Pow10(ndigits))

\* ---------------------------------------------------------------- inputs
\* Setpoints, load-shedding percentages and outdoor temperatures are drawn in
\* tenths (of a degree, of a percentage point).
AcTemps == {-MaxNegAcTemp, 210, 220, 240, 300, 350, MaxAcTemp}
Reductions == {-MaxNegReduction, 0, 100, 180, MaxReduction}
OutdoorTemps == {-50, 200, 220, 348, 350, 400, 450}

\* A validated request body (SimulationParams).
SimulationParams(AC, RP) ==
    { [acTemp |-> Tenths(a), reductionPercent |-> Tenths(p), incentiveEnabled |-> b] :
        a \in AC, p \in RP, b \in BOOLEAN }

\* acTemp 19.3 and reductionPercent 22.2: at outdoorTemp 34.8 the cost is
\* 3385.125 without the incentive and 8385.125 with it, halfway between two
\* cents.
TieParams == SimulationParams({193}, {222})

AllParams == SimulationParams(AcTemps, Reductions) \cup TieParams
FewParams == {p \in SimulationParams({240, 300}, {100}) : ~p.incentiveEnabled}

\* A JSON value found at data['current']['temperature_2m'].
Number(x) == [tag |-> "number", v |-> x]
JsonString == [tag |-> "string", v |-> Whole(0)]
JsonNull == [tag |-> "null", v |-> Whole(0)]
IsNumber(j) == j.tag = "number"

\* What the single outbound requests.get can produce: it raises (connection
\* error, timeout after 2 seconds), or it returns a response with a status
\* and a body; the body is not JSON, or JSON without 'current', or with
\* 'current' but without 'temperature_2m', or JSON carrying a value there.
Raised(why) == [kind |-> why, status |-> 0, body |-> "none", temp |-> JsonNull]
Response(st, b, t) == [kind |-> "response", status |-> st, body |-> b, temp |-> t]

FetchOutcomes(T) ==
    {Raised("network_error"), Raised("timeout")}
    \cup {Response(200, b, JsonNull) : b \in {"not_json", "no_current", "no_temperature_2m"}}
    \cup {Response(200, "temperature_2m", j) :
            j \in {Number(Tenths(t)) : t \in T} \cup {JsonString, JsonNull}}
    \cup {Response(503, "not_json", JsonNull), Response(503, "no_current", JsonNull),
          Response(503, "temperature_2m", Number(Tenths(400)))}

AllOutcomes == FetchOutcomes(OutdoorTemps)
FewOutcomes == {Raised("timeout"), Response(200, "temperature_2m", Number(Tenths(350))),
                Response(200, "temperature_2m", Number(Tenths(450)))}

\* The outcomes the specification lists as failures of the fetch.
FetchFailed(o) ==
    \/ o.kind # "response"
    \/ o.status # 200
    \/ o.body # "temperature_2m"
    \/ ~IsNumber(o.temp)

\* ---------------------------------------------------------------- get_live_temperature
Fallback == Number(Whole(35))

\* requests.get, response.json() or either subscript raised inside the try.
FetchRaises(o) == o.kind # "response" \/ o.body # "temperature_2m"

get_live_temperature(o) == IF FetchRaises(o) THEN Fallback ELSE o.temp

\* ---------------------------------------------------------------- simulate_policy
baseline_energy_monthly == 25500
base_rate == 12
BaselineSetpoint == 22
ComfortSetpoint == 24
ScorchingTemp == 40
SheddingThreshold == 15
IncentiveAmount == 5000

\* Mutant: the baseline load measured from the comfort setpoint (24).
delta_t_baseline_FromComfort(outdoor_temp) ==
    max(Whole(0), Sub(outdoor_temp, Whole(ComfortSetpoint)))

delta_t_baseline(outdoor_temp) == max(Whole(0), Sub(outdoor_temp, Whole(BaselineSetpoint)))

\* Mutant: the new load without the max(0, .).
delta_t_new_Unclamped(outdoor_temp, acTemp) == Sub(outdoor_temp, acTemp)

delta_t_new(outdoor_temp, acTemp) == max(Whole(0), Sub(outdoor_temp, acTemp))

\* Mutant: the guard written >= 0.
Divides_OrZero(db) == Le(Whole(0), db)

\* The condition of the if at line 54: the division is evaluated iff it holds.
Divides(db) == Gt(db, Whole(0))

\* Mutant: the cold branch yields full savings.
thermal_savings_pct_ColdFull(db, dn) ==
    IF Divides(db) THEN Sub(Whole(1), Div(dn, db)) ELSE Whole(1)

thermal_savings_pct(db, dn) ==
    IF Divides(db) THEN Sub(Whole(1), Div(dn, db)) ELSE Whole(0)

total_savings_pct(thermal, reductionPercent) == Add(thermal, DivInt(reductionPercent, 100))

energy_saved_kwh(total) == MulInt(total, baseline_energy_monthly)

incentive(incentiveEnabled) == IF incentiveEnabled THEN IncentiveAmount ELSE 0

cost_savings(energy, incentiveEnabled) ==
    Add(MulInt(energy, base_rate), Whole(incentive(incentiveEnabled)))

\* energy_saved_kwh * 0.82
carbon_reduction(energy) == MulFrac(energy, 82, 100)

\* Mutant: scorching from 40 degrees inclusive.
heat_factor_Inclusive(outdoor_temp) == IF Le(Whole(ScorchingTemp), outdoor_temp) THEN 3 ELSE 2

\* heat_factor is 1.5 or 1.0, kept as a number of halves
heat_factor(outdoor_temp) == IF Gt(outdoor_temp, Whole(ScorchingTemp)) THEN 3 ELSE 2

heat_penalty(acTemp, outdoor_temp) ==
    IF Gt(acTemp, Whole(ComfortSetpoint))
    THEN MulFrac(MulFrac(Sub(acTemp, Whole(ComfortSetpoint)), 1, 10), heat_factor(outdoor_temp), 2)
    ELSE Whole(0)

shedding_penalty(reductionPercent) ==
    IF Gt(reductionPercent, Whole(SheddingThreshold))
    THEN MulFrac(Sub(reductionPercent, Whole(SheddingThreshold)), 15, 1000)
    ELSE Whole(0)

score(acTemp, reductionPercent, outdoor_temp) ==
    Sub(Sub(Whole(1), heat_penalty(acTemp, outdoor_temp)), shedding_penalty(reductionPercent))

\* Mutant: the lower bound of the clamp dropped.
clamp_NoFloor(s) == min(Whole(1), s)

clamp(s) == max(Tenths(1), min(Whole(1), s))

energy_of(p, t) ==
    energy_saved_kwh(total_savings_pct(
        thermal_savings_pct(delta_t_baseline(t), delta_t_new(t, p.acTemp)),
        p.reductionPercent))

\* The float expression a cost is rounded from: e * 12.0 + 5000.0 or
\* e * 12.0 + 0.0.
CostExpr(incentiveEnabled) == IF incentiveEnabled THEN "incentive" ELSE "plain"

\* The dict returned at lines 86-92.
SimulationResult(p, t, err) ==
    [costSavings     |-> round(cost_savings(energy_of(p, t), p.incentiveEnabled), 2,
                               err[CostExpr(p.incentiveEnabled)]),
     carbonReduction |-> round(carbon_reduction(energy_of(p, t)), 2, err["other"]),
     comfortScore    |-> round(clamp(score(p.acTemp, p.reductionPercent, t)), 2, err["other"]),
     energySaved     |-> round(energy_of(p, t), 2, err["other"]),
     outdoorTemp     |-> round(t, 1, err["other"])]

\* An exception inside the try of simulate_policy: arithmetic on a value that
\* is not a number, or a division by zero.
SimulateRaises(p, temp) ==
    \/ ~IsNumber(temp)
    \/ /\ Divides(delta_t_baseline(temp.v))
       /\ IsZero(delta_t_baseline(temp.v))

\* Lines 49-95: the response of POST /simulate once outdoor_temp is bound.
simulate_policy(p, temp, err) ==
    IF SimulateRaises(p, temp)
    THEN [status |-> 500, json |-> [detail |-> "exception"]]
    ELSE [status |-> 200, json |-> SimulationResult(p, temp.v, err)]

health_check ==
    [status |-> 200, json |-> [status |-> "AI Service Online", mode |-> "Live Weather Enabled"]]

\* ---------------------------------------------------------------- state
VARIABLES
    fpErr,          \* sign of the round-off in the operand of each round()
    pc,             \* where each request is: idle, fetching, computing, done
    route,          \* "simulate" or "health" once the request is dispatched
    params,         \* the request body bound to simulate_policy's params
    fetched,        \* what requests.get did for this request
    outdoor_temp,   \* simulate_policy's local outdoor_temp
    response        \* the HTTP response sent

vars == <<fpErr, pc, route, params, fetched, outdoor_temp, response>>

Requests == 1..NReq
FloatExprs == {"incentive", "plain", "other"}

NoParams == [acTemp |-> Whole(0), reductionPercent |-> Whole(0), incentiveEnabled |-> FALSE]
NoFetch == Raised("none")
NoResponse == [status |-> 0, json |-> [detail |-> "none"]]

\* Mutant: outdoor_temp kept in one module-level variable.
SharedOutdoorTemp(locals, r) == locals[1]

\* outdoor_temp is a local of the invocation serving request r.
LocalOutdoorTemp(locals, r) == locals[r]

Init ==
    /\ fpErr \in [FloatExprs -> {-1, 0, 1}]
    /\ pc = [r \in Requests |-> "idle"]
    /\ route = [r \in Requests |-> "none"]
    /\ params = [r \in Requests |-> NoParams]
    /\ fetched = [r \in Requests |-> NoFetch]
    /\ outdoor_temp = [r \in Requests |-> JsonNull]
    /\ response = [r \in Requests |-> NoResponse]

\* GET /
HealthCheck(r) ==
    /\ pc[r] = "idle"
    /\ pc' = [pc EXCEPT ![r] = "done"]
    /\ route' = [route EXCEPT ![r] = "health"]
    /\ response' = [response EXCEPT ![r] = health_check]
    /\ UNCHANGED <<fpErr, params, fetched, outdoor_temp>>

\* POST /simulate with a schema-valid body: simulate_policy is entered and
\* calls get_live_temperature, which issues the outbound request.
SimulateCall(r, P) ==
    /\ pc[r] = "idle"
    /\ \E p \in P : params' = [params EXCEPT ![r] = p]
    /\ pc' = [pc EXCEPT ![r] = "fetching"]
    /\ route' = [route EXCEPT ![r] = "simulate"]
    /\ UNCHANGED <<fpErr, fetched, outdoor_temp, response>>

\* get_live_temperature returns into line 44.
WeatherReturn(r, O) ==
    /\ pc[r] = "fetching"
    /\ \E o \in O :
        /\ fetched' = [fetched EXCEPT ![r] = o]
        /\ outdoor_temp' = [outdoor_temp EXCEPT ![r] = get_live_temperature(o)]
    /\ pc' = [pc EXCEPT ![r] = "computing"]
    /\ UNCHANGED <<fpErr, route, params, response>>

\* Lines 49-95.
SimulateReturn(r) ==
    /\ pc[r] = "computing"
    /\ response' = [response EXCEPT ![r] =
                        simulate_policy(params[r], LocalOutdoorTemp(outdoor_temp, r), fpErr)]
    /\ pc' = [pc EXCEPT ![r] = "done"]
    /\ UNCHANGED <<fpErr, route, params, fetched, outdoor_temp>>

\* The server: requests are handled concurrently, each step of a handler
\* interleaves with the others.
Next ==
    \E r \in Requests :
        \/ HealthCheck(r)
        \/ SimulateCall(r, FewParams)
        \/ WeatherReturn(r, FewOutcomes)
        \/ SimulateReturn(r)

Spec == Init /\ [][Next]_vars

\* One POST /simulate over the whole input grid: the body has been validated
\* and bound, the fetch is outstanding.
InitSim ==
    /\ fpErr \in [FloatExprs -> {-1, 0, 1}]
    /\ pc = [r \in Requests |-> IF r = 1 THEN "fetching" ELSE "idle"]
    /\ route = [r \in Requests |-> IF r = 1 THEN "simulate" ELSE "none"]
    /\ \E p \in AllParams : params = [r \in Requests |-> IF r = 1 THEN p ELSE NoParams]
    /\ fetched = [r \in Requests |-> NoFetch]
    /\ outdoor_temp = [r \in Requests |-> JsonNull]
    /\ response = [r \in Requests |-> NoResponse]

NextSim ==
    \/ WeatherReturn(1, AllOutcomes)
    \/ SimulateReturn(1)

SpecSim == InitSim /\ [][NextSim]_vars

\* ---------------------------------------------------------------- shorthands
Fetched(r) == route[r] = "simulate" /\ pc[r] \in {"computing", "done"}
Answered(r) == route[r] = "simulate" /\ pc[r] = "done"
Succeeded(r) == Answered(r) /\ response[r].status = 200
T(r) == outdoor_temp[r].v
ResultFields == {"costSavings", "carbonReduction", "comfortScore", "energySaved", "outdoorTemp"}

\* ---------------------------------------------------------------- claims

\* C1: get_live_temperature falls back on every failure of the fetch: for a
\* network error, a timeout, a non-200 status, a non-JSON body, a missing
\* field or a non-numeric temperature_2m it returns exactly 35.0, and every
\* value it returns is a number.
C1_FallbackOnEveryFailure ==
    \A r \in Requests :
        Fetched(r) =>
            /\ IsNumber(outdoor_temp[r])
            /\ FetchFailed(fetched[r]) => outdoor_temp[r] = Fallback

\* C2: no weather-fetch failure reaches the caller of POST /simulate: every
\* answered request has status 200, and after a failed fetch the result is
\* the one computed with outdoorTemp = 35.0.
C2_FetchFailureMasked ==
    \A r \in Requests :
        Answered(r) =>
            /\ response[r].status = 200
            /\ FetchFailed(fetched[r]) =>
                   response[r].json = SimulationResult(params[r], Whole(35), fpErr)

\* C3: the comfortScore of every result lies in [0.1, 1.0].
C3_ComfortClamp ==
    \A r \in Requests :
        Succeeded(r) =>
            /\ Le(Tenths(1), response[r].json.comfortScore)
            /\ Le(response[r].json.comfortScore, Whole(1))

\* C3 witness: a result whose unclamped score is below 0.1.
C3_Witness ==
    \E r \in Requests :
        /\ Succeeded(r)
        /\ Lt(score(params[r].acTemp, params[r].reductionPercent, T(r)), Tenths(1))
        /\ response[r].json.comfortScore = Tenths(1)

\* C4: for every numeric outdoor temperature the simulation completes with a
\* five-field result and never takes the catch-all 500 path; no division by
\* zero is reached.
C4_Total ==
    \A r \in Requests :
        (Answered(r) /\ IsNumber(outdoor_temp[r])) =>
            /\ response[r].status = 200
            /\ DOMAIN response[r].json = ResultFields
            /\ ~SimulateRaises(params[r], outdoor_temp[r])

\* C4 witness: outdoorTemp = 22 exactly, acTemp < 22, negative
\* reductionPercent, answered with a result.
C4_Witness ==
    \E r \in Requests :
        /\ Succeeded(r)
        /\ T(r) = Whole(22)
        /\ Lt(params[r].acTemp, Whole(22))
        /\ Lt(params[r].reductionPercent, Whole(0))

\* The result of the same request with the incentive flag set to b.
WithIncentive(r, b) ==
    SimulationResult([params[r] EXCEPT !.incentiveEnabled = b], T(r), fpErr)

\* C5: costSavings with the incentive minus costSavings without it is exactly
\* 5000.0, and the other four fields are identical.
C5_IncentiveAdditivity ==
    \A r \in Requests :
        Succeeded(r) =>
            /\ Sub(WithIncentive(r, TRUE).costSavings, WithIncentive(r, FALSE).costSavings)
                   = Whole(5000)
            /\ \A f \in ResultFields \ {"costSavings"} :
                   WithIncentive(r, TRUE)[f] = WithIncentive(r, FALSE)[f]
            /\ response[r].json = WithIncentive(r, params[r].incentiveEnabled)

\* The energy of the load-shedding term alone.
SheddingEnergy(r) == MulInt(DivInt(params[r].reductionPercent, 100), baseline_energy_monthly)

\* C6: when outdoorTemp <= 22 the thermal savings are exactly 0 for every
\* acTemp: the result carries the load-shedding energy only, no field but
\* comfortScore changes with acTemp, and with reductionPercent = 0 and no
\* incentive energySaved, costSavings and carbonReduction are 0.
C6_ColdOutdoor ==
    \A r \in Requests :
        (Succeeded(r) /\ Le(T(r), Whole(22))) =>
            /\ response[r].json.energySaved = round(SheddingEnergy(r), 2, fpErr["other"])
            /\ \A a \in AcTemps, f \in ResultFields \ {"comfortScore"} :
                   SimulationResult([params[r] EXCEPT !.acTemp = Tenths(a)], T(r), fpErr)[f]
                       = response[r].json[f]
            /\ (IsZero(params[r].reductionPercent) /\ ~params[r].incentiveEnabled) =>
                   /\ IsZero(response[r].json.energySaved)
                   /\ IsZero(response[r].json.costSavings)
                   /\ IsZero(response[r].json.carbonReduction)

\* C6 witness: outdoorTemp = 22 exactly, a setpoint other than 22, nothing
\* shed, no incentive.
C6_Witness ==
    \E r \in Requests :
        /\ Succeeded(r)
        /\ T(r) = Whole(22)
        /\ Lt(params[r].acTemp, Whole(22))
        /\ IsZero(params[r].reductionPercent)
        /\ ~params[r].incentiveEnabled
        /\ IsZero(response[r].json.energySaved)

Scenario1(r) ==
    /\ Succeeded(r)
    /\ params[r] = [acTemp |-> Whole(24), reductionPercent |-> Whole(10), incentiveEnabled |-> FALSE]
    /\ T(r) = Whole(35)

\* |x - y| <= 0.05: x agrees with the one-decimal figure y.
AgreesToOneDecimal(x, y) ==
    /\ Le(Sub(x, y), Hundredths(5))
    /\ Le(Sub(y, x), Hundredths(5))

\* C7 as stated: scenario 1 returns energySaved ~ 6472.3, costSavings ~
\* 77667.7 and carbonReduction ~ 5307.3, with comfortScore 1.0.
C7_Scenario1_AsStated ==
    \A r \in Requests :
        Scenario1(r) =>
            /\ delta_t_baseline(T(r)) = Whole(13)
            /\ delta_t_new(T(r), params[r].acTemp) = Whole(11)
            /\ AgreesToOneDecimal(response[r].json.energySaved, Tenths(64723))
            /\ AgreesToOneDecimal(response[r].json.costSavings, Tenths(776677))
            /\ AgreesToOneDecimal(response[r].json.carbonReduction, Tenths(53073))
            /\ response[r].json.comfortScore = Whole(1)

\* C7 amended: scenario 1 has deltaBaseline 13 and deltaNew 11 and returns
\* energySaved 6473.08, costSavings 77676.92, carbonReduction 5307.92 and
\* comfortScore 1.0.
C7_Scenario1 ==
    \A r \in Requests :
        Scenario1(r) =>
            /\ delta_t_baseline(T(r)) = Whole(13)
            /\ delta_t_new(T(r), params[r].acTemp) = Whole(11)
            /\ response[r].json.energySaved = Hundredths(647308)
            /\ response[r].json.costSavings = Hundredths(7767692)
            /\ response[r].json.carbonReduction = Hundredths(530792)
            /\ response[r].json.comfortScore = Whole(1)

\* C7 witness: scenario 1 has been answered.
C7_Witness == \E r \in Requests : Scenario1(r)

\* The heat-stress penalty as the claim states it.
StatedHeatPenalty(acTemp, outdoor) ==
    IF Gt(acTemp, Whole(24))
    THEN MulFrac(Sub(acTemp, Whole(24)), IF Gt(outdoor, Whole(40)) THEN 15 ELSE 10, 100)
    ELSE Whole(0)

\* C8: with acTemp > 24 the score loses (acTemp - 24) * 0.1 * heatFactor,
\* heatFactor 1.5 if outdoorTemp > 40 and 1.0 otherwise, and nothing with
\* acTemp <= 24; acTemp 30 with nothing shed gives comfortScore 0.1 at
\* outdoorTemp 45 and 0.4 at outdoorTemp 40.
C8_HeatPenalty ==
    \A r \in Requests :
        Succeeded(r) =>
            /\ ~Gt(params[r].reductionPercent, Whole(15)) =>
                   response[r].json.comfortScore =
                       round(max(Tenths(1),
                                 min(Whole(1), Sub(Whole(1), StatedHeatPenalty(params[r].acTemp, T(r))))),
                             2, fpErr["other"])
            /\ (params[r].acTemp = Whole(30) /\ IsZero(params[r].reductionPercent)) =>
                   /\ T(r) = Whole(45) =>
                          /\ StatedHeatPenalty(params[r].acTemp, T(r)) = Tenths(9)
                          /\ response[r].json.comfortScore = Tenths(1)
                   /\ T(r) = Whole(40) =>
                          /\ StatedHeatPenalty(params[r].acTemp, T(r)) = Tenths(6)
                          /\ response[r].json.comfortScore = Tenths(4)

\* C8 witness: acTemp 30, nothing shed, outdoorTemp exactly 40, answered 0.4.
C8_Witness ==
    \E r \in Requests :
        /\ Succeeded(r)
        /\ params[r].acTemp = Whole(30)
        /\ IsZero(params[r].reductionPercent)
        /\ T(r) = Whole(40)
        /\ response[r].json.comfortScore = Tenths(4)

\* C9: every /simulate response is the function of the request's own params
\* and of the temperature its own fetch produced; two requests with the same
\* params and the same fetched temperature get the same result; and a step
\* taken for one request leaves the state of every other request as it was.
C9_RequestIndependence ==
    /\ [](\A r \in Requests :
            Answered(r) =>
                response[r] = simulate_policy(params[r], get_live_temperature(fetched[r]), fpErr))
    /\ [](\A r, q \in Requests :
            (Answered(r) /\ Answered(q) /\ params[r] = params[q]
                /\ outdoor_temp[r] = outdoor_temp[q]) => response[r] = response[q])
    /\ [][\A r, q \in Requests :
            (r # q /\ <<pc[r], route[r], params[r], fetched[r], outdoor_temp[r], response[r]>>
                      # <<pc'[r], route'[r], params'[r], fetched'[r], outdoor_temp'[r], response'[r]>>)
            => <<pc[q], route[q], params[q], fetched[q], outdoor_temp[q], response[q]>>
               = <<pc'[q], route'[q], params'[q], fetched'[q], outdoor_temp'[q], response'[q]>>]_vars

\* C9 witness: two answered requests with equal params whose fetches ended
\* differently (one fell back, one read 35.0 live).
C9_Witness ==
    \E r, q \in Requests :
        /\ r # q
        /\ Succeeded(r) /\ Succeeded(q)
        /\ params[r] = params[q]
        /\ fetched[r] # fetched[q]
        /\ outdoor_temp[r] = outdoor_temp[q]
        /\ response[r] = response[q]

Thermal(r) == thermal_savings_pct(delta_t_baseline(T(r)), delta_t_new(T(r), params[r].acTemp))

====
